---- MODULE Spec2Model ----
(***************************************************************************)
(* Model of src/_exercice_version_prof.py: the signal operations           *)
(* (merge_channels, separate_channels, normalize), the time base           *)
(* (generate_sample_time_points) and the 16-bit PCM conversion             *)
(* (convert_to_bytes, convert_to_samples).                                 *)
(*                                                                         *)
(* A real number is an exact fraction <<n, d>> with d > 0 (not reduced;    *)
(* compared by cross-multiplication).  NaN is the string "nan".  A numpy   *)
(* array is a sequence; the time points are a function on 0..num-1.  The   *)
(* outcome of a call is a record: [kind |-> "ok", value |-> v] for a       *)
(* returned value, [kind |-> "none"] for a function that falls off its end *)
(* (Python returns None), [kind |-> "error", error |-> e] for a raised     *)
(* exception of class e.                                                   *)
(***************************************************************************)
EXTENDS Integers, Sequences, FiniteSets, TLC

VARIABLES op, arg, result, prev

vars == <<op, arg, result, prev>>

\* ---------------------------------------------------------------- constants
SAMPLING_FREQ == 44100
SAMPLE_WIDTH == 16
MAX_INT_SAMPLE_VALUE == 2^(SAMPLE_WIDTH - 1) - 1

\* ------------------------------------------------------------------- bounds
MaxChannels == 2
MaxLen == 2
MaxPcmLen == 3
MaxNum == 3
SampleDen == 2
MaxBufLen == 3
MaxDuration == 1
MaxFloatNum == 4

\* ------------------------------------------------------------ real numbers
Rat(n, d) == <<n, d>>
RatEq(a, b) == a[1] * b[2] = b[1] * a[2]
\* fractions over one denominator are compared by their numerators
RatLt(a, b) == IF a[2] = b[2] THEN a[1] < b[1] ELSE a[1] * b[2] < b[1] * a[2]
RatLe(a, b) == a[1] * b[2] <= b[1] * a[2]
RatAbs(a) == IF a[1] < 0 THEN <<-a[1], a[2]>> ELSE a
RatMul(a, b) == <<a[1] * b[1], a[2] * b[2]>>
RatAdd(a, b) == <<a[1] * b[2] + b[1] * a[2], a[2] * b[2]>>
RatSub(a, b) == <<a[1] * b[2] - b[1] * a[2], a[2] * b[2]>>
\* a / b for b > 0
RatDiv(a, b) == <<a[1] * b[2], a[2] * b[1]>>
IsZero(a) == a[1] = 0
NaN == "nan"

\* C-style conversion of a real to an integer: the fraction is dropped
\* (rounding toward zero)
Trunc(a) == IF a[1] >= 0 THEN a[1] \div a[2] ELSE -((-a[1]) \div a[2])
\* Python's round(): to nearest, ties to even
Floor(a) == a[1] \div a[2]
Round(a) ==
    LET f == Floor(a)
        twice == RatSub(RatMul(<<2, 1>>, a), <<2 * f, 1>>)
    IN  IF RatLt(twice, <<1, 1>>) THEN f
        ELSE IF RatLt(<<1, 1>>, twice) THEN f + 1
        ELSE IF f % 2 = 0 THEN f ELSE f + 1

\* ------------------------------------------------------------ input domains
SeqsUpTo(S, n) == UNION {[1..m -> S] : m \in 0..n}
Samples == {Rat(n, SampleDen) : n \in -MaxNum..MaxNum}
ChanVals == {Rat(-SampleDen, SampleDen), Rat(1, SampleDen)}
ByteVals == {0, 1, 127, 128, 255}
NormTargets == {Rat(0, 1), Rat(89, 100), Rat(1, 1)}
FloatDen == 2^16
Durations ==
    {[type |-> "int", val |-> Rat(d, 1)] : d \in 1..MaxDuration}
    \cup {[type |-> "float", val |-> Rat(k, FloatDen)] : k \in 1..MaxFloatNum}

Ok(v) == [kind |-> "ok", value |-> v]
None == [kind |-> "none"]
Raise(e) == [kind |-> "error", error |-> e]
NoCall == [op |-> "start"]


\* ------------------------------------------------------------ list helpers
Min(S) == CHOOSE x \in S : \A y \in S : x <= y

\* flattening of the nested generator
\*   (sample for samples in ... for sample in samples)
RECURSIVE Flatten(_)
Flatten(ss) == IF ss = <<>> THEN <<>> ELSE Head(ss) \o Flatten(Tail(ss))

\* ------------------------------------------------------------- SignalOps
\* zip(*channels): one tuple per frame, stopping at the shortest channel
zip(channels) ==
    LET k == Len(channels)
        m == IF k = 0 THEN 0 ELSE Min({Len(channels[c]) : c \in 1..k})
    IN  [j \in 1..m |-> [c \in 1..k |-> channels[c][j]]]

\* variant: the channels one after the other instead of frame by frame
merge_channels_concat(channels) == Ok(Flatten(channels))

\* variant: channels of different lengths are rejected
merge_channels_strict(channels) ==
    IF \E c, e \in 1..Len(channels) : Len(channels[c]) # Len(channels[e])
    THEN Raise("ValueError")
    ELSE Ok(Flatten(zip(channels)))

merge_channels(channels) == Ok(Flatten(zip(channels)))

\* samples[i::step], i counted from 0 as in Python
Slice(samples, i, step) ==
    LET n == Len(samples)
        cnt == IF i >= n THEN 0 ELSE (n - i + step - 1) \div step
    IN  [j \in 1..cnt |-> samples[i + (j - 1) * step + 1]]

\* np.fromiter(..., float) stores float(item) for each item of the generator.
\* Here each item is the array samples[i::num_channels]: float() of an array
\* succeeds only for an array of exactly one element, otherwise fromiter
\* raises ValueError ("setting an array element with a sequence").
separate_channels(samples, num_channels) ==
    LET items == [i \in 1..num_channels |-> Slice(samples, i - 1, num_channels)]
    IN  IF \A i \in 1..num_channels : Len(items[i]) = 1
        THEN Ok([i \in 1..num_channels |-> items[i][1]])
        ELSE Raise("ValueError")

RatMax(S) == CHOOSE x \in S : \A y \in S : RatLe(y, x)

normalize(samples, norm_target) ==
    IF Len(samples) = 0
    THEN Raise("ValueError")   \* np.max of an empty array
    ELSE LET abs_samples == [i \in 1..Len(samples) |-> RatAbs(samples[i])]
             max_sample == RatMax({abs_samples[i] : i \in 1..Len(samples)})
         IN  IF IsZero(max_sample)
             \* numpy division by zero: coeff is inf (nan for a zero target),
             \* no exception; coeff * 0.0 is nan for every sample
             THEN Ok([i \in 1..Len(samples) |-> NaN])
             ELSE LET coeff == RatDiv(norm_target, max_sample)
                  IN  Ok([i \in 1..Len(samples) |-> RatMul(coeff, samples[i])])

\* --------------------------------------------------------------- TimeBase
\* variant: endpoint excluded, the step is (stop - start) / num
linspace_no_endpoint(start, stop, num) ==
    [i \in 0..(num - 1) |->
        RatAdd(start, RatMul(Rat(i, 1), RatDiv(RatSub(stop, start), Rat(num, 1))))]

\* np.linspace(start, stop, num) for an integer num, endpoint included
linspace(start, stop, num) ==
    [i \in 0..(num - 1) |->
        IF num = 1 THEN start
        ELSE RatAdd(start, RatMul(Rat(i, 1), RatDiv(RatSub(stop, start), Rat(num - 1, 1))))]

\* The set of outcomes of generate_sample_time_points(duration).  num is
\* duration * SAMPLING_FREQ: an int for an int duration.  For a float
\* duration num is a float, which np.linspace rejects with TypeError
\* (numpy >= 1.18) or converts with int(num) (older numpy).
generate_sample_time_points(duration) ==
    LET num == RatMul(duration.val, Rat(SAMPLING_FREQ, 1))
    IN  IF duration.type = "int"
        THEN {Ok(linspace(Rat(0, 1), duration.val, Trunc(num)))}
        ELSE {Raise("TypeError"), Ok(linspace(Rat(0, 1), duration.val, Trunc(num)))}

\* --------------------------------------------------------------- PcmCodec
clip(x, lo, hi) == IF RatLt(x, lo) THEN lo ELSE IF RatLt(hi, x) THEN hi ELSE x

\* variant: rounding toward minus infinity
astype_i2_floor(v) ==
    LET u == Floor(v) % 2^SAMPLE_WIDTH
    IN  IF u >= 2^(SAMPLE_WIDTH - 1) THEN u - 2^SAMPLE_WIDTH ELSE u

\* astype("<i2"): the fraction is dropped, the integer is kept on 16 bits
\* (two's complement)
astype_i2(v) ==
    LET u == Trunc(v) % 2^SAMPLE_WIDTH
    IN  IF u >= 2^(SAMPLE_WIDTH - 1) THEN u - 2^SAMPLE_WIDTH ELSE u

\* variant: high byte first
tobytes_be(int_samples) ==
    Flatten([i \in 1..Len(int_samples) |->
        LET u == int_samples[i] % 2^SAMPLE_WIDTH
        IN  <<u \div 256, u % 256>>])

\* tobytes() of a "<i2" array: two bytes per integer, low byte first
tobytes(int_samples) ==
    Flatten([i \in 1..Len(int_samples) |->
        LET u == int_samples[i] % 2^SAMPLE_WIDTH
        IN  <<u % 256, u \div 256>>])

convert_to_bytes(samples) ==
    LET clipped == [i \in 1..Len(samples) |-> clip(samples[i], Rat(-1, 1), Rat(1, 1))]
        int_samples == [i \in 1..Len(samples) |->
            astype_i2(RatMul(clipped[i], Rat(MAX_INT_SAMPLE_VALUE, 1)))]
    IN  Ok(tobytes(int_samples))

\* np.frombuffer(bytes, dtype="<i2") for a buffer of even length
frombuffer_i2(bytes) ==
    [i \in 1..(Len(bytes) \div 2) |->
        LET u == bytes[2 * i - 1] + 256 * bytes[2 * i]
        IN  IF u >= 2^(SAMPLE_WIDTH - 1) THEN u - 2^SAMPLE_WIDTH ELSE u]

\* the local variable `samples` of convert_to_samples
samples_local(bytes) ==
    [i \in 1..(Len(bytes) \div 2) |-> Rat(frombuffer_i2(bytes)[i], MAX_INT_SAMPLE_VALUE)]

\* np.frombuffer raises ValueError when the buffer size is not a multiple of
\* the element size; otherwise the function computes samples_local and ends
\* without a return statement.
convert_to_samples(bytes) ==
    IF Len(bytes) % 2 # 0 THEN Raise("ValueError") ELSE None

\* ---------------------------------------------------------------- actions
\* A behaviour is one client session: a call on fresh input, optionally
\* followed by the inverse operation applied to the value just returned.
Call(o, a, r, p) ==
    /\ op' = o
    /\ arg' = a
    /\ result' = r
    /\ prev' = p

ThisCall == [op |-> op, arg |-> arg, result |-> result]

MergeChannels ==
    /\ op = "start"
    /\ \E channels \in SeqsUpTo(SeqsUpTo(ChanVals, MaxLen), MaxChannels) :
        Call("merge_channels", channels, merge_channels(channels), NoCall)

SeparateChannels ==
    \/ /\ op = "start"
       /\ \E samples \in SeqsUpTo(ChanVals, MaxLen), num_channels \in 0..MaxChannels :
            Call("separate_channels",
                 [samples |-> samples, num_channels |-> num_channels],
                 separate_channels(samples, num_channels), NoCall)
    \/ /\ op = "merge_channels"
       /\ result.kind = "ok"
       /\ Call("separate_channels",
               [samples |-> result.value, num_channels |-> Len(arg)],
               separate_channels(result.value, Len(arg)), ThisCall)

Normalize ==
    /\ op = "start"
    /\ \E samples \in SeqsUpTo(Samples, MaxPcmLen), norm_target \in NormTargets :
        Call("normalize", [samples |-> samples, norm_target |-> norm_target],
             normalize(samples, norm_target), NoCall)

GenerateSampleTimePoints ==
    /\ op = "start"
    /\ \E duration \in Durations :
        \E r \in generate_sample_time_points(duration) :
            Call("generate_sample_time_points", duration, r, NoCall)

ConvertToBytes ==
    /\ op = "start"
    /\ \E samples \in SeqsUpTo(Samples, MaxPcmLen) :
        Call("convert_to_bytes", samples, convert_to_bytes(samples), NoCall)

ConvertToSamples ==
    \/ /\ op = "start"
       /\ \E bytes \in SeqsUpTo(ByteVals, MaxBufLen) :
            Call("convert_to_samples", bytes, convert_to_samples(bytes), NoCall)
    \/ /\ op = "convert_to_bytes"
       /\ result.kind = "ok"
       /\ Call("convert_to_samples", result.value, convert_to_samples(result.value), ThisCall)

\* ----------------------------------------------------------------- claims
EqualLengths(channels) ==
    \A c, e \in 1..Len(channels) : Len(channels[c]) = Len(channels[e])

\* result.value is the frame-major interleaving of the first m frames of the
\* k channels of arg
InterleavesFrames(value, channels, m) ==
    LET k == Len(channels)
    IN  /\ Len(value) = k * m
        /\ \A j \in 0..(m - 1), c \in 0..(k - 1) :
               value[j * k + c + 1] = channels[c + 1][j + 1]

\* C1: merge_channels of k >= 1 channels of one length n returns a sequence of
\* length k*n with result[j*k + c] = channels[c][j] for every frame j and
\* channel c.
C1_MergeInterleaves ==
    (op = "merge_channels" /\ Len(arg) >= 1 /\ EqualLengths(arg)) =>
        /\ result.kind = "ok"
        /\ InterleavesFrames(result.value, arg, Len(arg[1]))

C1_Witness ==
    /\ op = "merge_channels"
    /\ Len(arg) = 2
    /\ Len(arg[1]) = 2
    /\ Len(arg[2]) = 2
    /\ arg[1][1] # arg[2][1]
    /\ arg[1][2] # arg[2][1]
    /\ result.kind = "ok"
    /\ Len(result.value) = 4

\* C2: separate_channels(merge_channels([a, b]), 2) returns the channel set
\* [a, b] for any two sequences a and b of one length.
C2_SeparateInvertsMerge ==
    (/\ op = "separate_channels"
     /\ prev.op = "merge_channels"
     /\ Len(prev.arg) = 2
     /\ EqualLengths(prev.arg)
     /\ arg.num_channels = 2) =>
        result = Ok(prev.arg)

\* the i-th 2-byte little-endian signed integer of a buffer
Int16At(buffer, i) ==
    LET u == buffer[2 * i - 1] + 256 * buffer[2 * i]
    IN  IF u >= 32768 THEN u - 65536 ELSE u

\* clip(x, -1, 1) * 32767 as a real
ClipScaled(x) ==
    IF RatLt(x, Rat(-1, 1)) THEN Rat(-32767, 1)
    ELSE IF RatLt(Rat(1, 1), x) THEN Rat(32767, 1)
    ELSE Rat(32767 * x[1], x[2])

\* the integer v is the real y with its fraction dropped
IsTruncationOf(v, y) ==
    /\ ~RatLt(y, Rat(0, 1)) => RatLe(Rat(v, 1), y) /\ RatLt(y, Rat(v + 1, 1))
    /\ ~RatLt(Rat(0, 1), y) => RatLt(Rat(v - 1, 1), y) /\ RatLe(y, Rat(v, 1))

\* C3: convert_to_bytes never fails and emits 2*len(samples) bytes, the i-th
\* little-endian signed 16-bit integer being clip(samples[i], -1, 1) * 32767
\* with its fraction dropped; every integer lies in -32767..32767.
C3_EncodeClipsAndTruncates ==
    op = "convert_to_bytes" =>
        /\ result.kind = "ok"
        /\ Len(result.value) = 2 * Len(arg)
        /\ \A i \in 1..Len(arg) :
               LET v == Int16At(result.value, i)
               IN  /\ -32767 <= v
                   /\ v <= 32767
                   /\ IsTruncationOf(v, ClipScaled(arg[i]))

C3_Witness ==
    /\ op = "convert_to_bytes"
    /\ result.kind = "ok"
    /\ \E i \in 1..Len(arg) : RatLt(arg[i], Rat(-1, 1)) /\ Int16At(result.value, i) = -32767
    /\ \E i \in 1..Len(arg) : RatLt(Rat(1, 1), arg[i]) /\ Int16At(result.value, i) = 32767
    /\ \E i \in 1..Len(arg) :
           /\ RatLt(arg[i], Rat(0, 1))
           /\ RatLt(Rat(-1, 1), arg[i])
           /\ ~RatEq(Rat(Int16At(result.value, i), 1), ClipScaled(arg[i]))

\* C4: for samples x all in [-1, 1], convert_to_samples(convert_to_bytes(x))
\* returns a sequence of the length of x whose elements differ from those of x
\* by at most 1/32767.
C4_PcmRoundTrip ==
    (/\ op = "convert_to_samples"
     /\ prev.op = "convert_to_bytes"
     /\ \A i \in 1..Len(prev.arg) :
            RatLe(Rat(-1, 1), prev.arg[i]) /\ RatLe(prev.arg[i], Rat(1, 1))) =>
        /\ result.kind = "ok"
        /\ Len(result.value) = Len(prev.arg)
        /\ \A i \in 1..Len(prev.arg) :
               RatLe(RatAbs(RatSub(result.value[i], prev.arg[i])), Rat(1, 32767))

\* C5: normalize of a signal whose samples are all zero ends in an error and
\* returns no sample sequence.
C5_NormalizeZeroFails ==
    (/\ op = "normalize"
     /\ Len(arg.samples) >= 1
     /\ \A i \in 1..Len(arg.samples) : IsZero(arg.samples[i])) =>
        result.kind = "error"

ShortestLen(channels) == Min({Len(channels[c]) : c \in 1..Len(channels)})

C7_DecodeContract ==
    op = "convert_to_samples" =>
        IF Len(arg) % 2 # 0
        THEN result.kind = "error"
        ELSE /\ result.kind = "ok"
             /\ Len(result.value) = Len(arg) \div 2
             /\ \A i \in 1..(Len(arg) \div 2) :
                    RatEq(result.value[i], Rat(Int16At(arg, i), 32767))

NumPoints(t) == Cardinality(DOMAIN t)

StrictlyIncreasing(t) ==
    \A i \in 0..(NumPoints(t) - 2) : RatLt(t[i], t[i + 1])

C9_EncodeExample ==
    (/\ op = "convert_to_bytes"
     /\ arg = <<Rat(SampleDen, SampleDen), Rat(-SampleDen, SampleDen), Rat(0, SampleDen)>>) =>
        /\ Len(result.value) = 6
        /\ [i \in 1..3 |-> Int16At(result.value, i)] = <<32767, -32767, 0>>
        /\ result.value = <<127, 255, 129, 255, 0, 0>>

\* C9 (amended): encoding [1.0, -1.0, 0.0] yields the int16 values
\* [32767, -32767, 0] in little-endian order, i.e. the six bytes
\* FF 7F 01 80 00 00.
C9_EncodeExampleAmended ==
    (/\ op = "convert_to_bytes"
     /\ arg = <<Rat(SampleDen, SampleDen), Rat(-SampleDen, SampleDen), Rat(0, SampleDen)>>) =>
        /\ Len(result.value) = 6
        /\ [i \in 1..3 |-> Int16At(result.value, i)] = <<32767, -32767, 0>>
        /\ result.value = <<255, 127, 1, 128, 0, 0>>

C9_Witness ==
    /\ op = "convert_to_bytes"
    /\ Len(arg) = 3
    /\ RatEq(arg[1], Rat(1, 1))
    /\ RatEq(arg[2], Rat(-1, 1))
    /\ IsZero(arg[3])
    /\ result.kind = "ok"
    /\ Len(result.value) = 6

\* C10: for every duration > 0 and every sample index i, the i-th time point
\* equals i / SAMPLING_FREQ seconds.
C10_TimePointIsIndexOverRate ==
    (op = "generate_sample_time_points" /\ result.kind = "ok") =>
        \A i \in 0..(NumPoints(result.value) - 1) :
            RatEq(result.value[i], Rat(i, 44100))

Init ==
    /\ op = "start"
    /\ arg = <<>>
    /\ result = None
    /\ prev = NoCall

Next ==
    \/ MergeChannels
    \/ SeparateChannels
    \/ Normalize
    \/ GenerateSampleTimePoints
    \/ ConvertToBytes
    \/ ConvertToSamples

Spec == Init /\ [][Next]_vars
====
